---- MODULE Spec2Model ----
(***************************************************************************)
(* Model of pkg/controller.Reconcile and setReadyStatus (controller.go)    *)
(* driving one managed object key against the object store and the         *)
(* provisioning backend (a Pulumi stack resolved by pkg/stack.GetStack).   *)
(*                                                                         *)
(* One pass of Reconcile is a run of the engine actions from Get to a      *)
(* state with pc = "done"; every object-store call and every backend call  *)
(* is one step, so every point between two calls is a state.  The object   *)
(* store and the backend may fail any call (at most MaxFaults times in a   *)
(* behaviour); users create, edit and delete the object at any moment.     *)
(***************************************************************************)
EXTENDS Naturals, Sequences, FiniteSets

\* ------------------------------------------------------------------ bounds
\* Highest spec generation a user edit can produce.
MaxGen == 2
\* Number of object-store or backend calls that may fail in a behaviour.
MaxFaults == 2
\* Number of times a pass's context may be cancelled in a behaviour.
MaxCancels == 1

\* --------------------------------------------------------------- constants
conditionTypeReady == "Ready"
finalizerSuffix == ".cloud.acme.local/finalizer"

ConditionTrue == "True"
ConditionFalse == "False"

\* The managed object's identity (req.NamespacedName and its kind).
Kind == "Bucket"
Name == "my-bucket"
Namespace == "default"

\* strings.ToLower on the kinds the model knows.
ToLower(k) ==
  CASE k = "Bucket" -> "bucket"
    [] k = "Queue" -> "queue"
    [] OTHER -> k

\* Finalizer without strings.ToLower.
FinalizerNotLowered == Kind \o finalizerSuffix

\* finalizer := kind + finalizerSuffix, kind lower-cased
Finalizer == ToLower(Kind) \o finalizerSuffix

\* The four (reason, message) pairs Reconcile passes to setReadyStatus.
MsgStarting == "Starting reconciliation"
MsgFinalizeBegin == "Performing finalizer operations for the custom resource: " \o Name
MsgFinalizeDone == "Finalizer operations for custom resource " \o Name \o " name were successfully accomplished"
MsgCreated == "The Object was successfully created"

\* metav1.Condition as setReadyStatus builds it.
Condition(status, reason, message) ==
  [type |-> conditionTypeReady, status |-> status, reason |-> reason, message |-> message]

\* ------------------------------------------------------------ object model
\* An object of the store: metadata (deletionTimestamp, finalizers,
\* generation of the spec) and status (conditions, outputs).  outputs = 0
\* means no outputs were set; outputs = g are the outputs of applying
\* generation g.
NoObject ==
  [exists |-> FALSE, deletionTimestamp |-> FALSE, finalizers |-> <<>>,
   generation |-> 0, conditions |-> <<>>, outputs |-> 0]

NewObject ==
  [exists |-> TRUE, deletionTimestamp |-> FALSE, finalizers |-> <<>>,
   generation |-> 1, conditions |-> <<>>, outputs |-> 0]

\* A finalizer of another controller, which the object may carry.
ForeignFinalizer == "other.acme.local/finalizer"

\* A condition of another type, which another controller of the object may
\* keep in the same list of conditions.
ForeignCondition ==
  [type |-> "Synced", status |-> "True", reason |-> "Synced", message |-> "in sync"]

\* controllerutil.ContainsFinalizer
ContainsFinalizer(obj, f) == \E i \in 1..Len(obj.finalizers) : obj.finalizers[i] = f

\* AddFinalizer left out: the object goes to r.Update as it was.
AddFinalizerForgotten(obj, f) == obj

\* controllerutil.AddFinalizer: appends unless present
AddFinalizer(obj, f) ==
  IF ContainsFinalizer(obj, f) THEN obj
  ELSE [obj EXCEPT !.finalizers = Append(@, f)]

\* controllerutil.RemoveFinalizer: the object without f, and whether the
\* list of finalizers changed
RemoveFinalizer(obj, f) ==
  LET kept == SelectSeq(obj.finalizers, LAMBDA x : x # f)
  IN [obj |-> [obj EXCEPT !.finalizers = kept],
      ok |-> Len(kept) # Len(obj.finalizers)]

\* meta.FindStatusCondition: index of the condition of the type, 0 if none
FindStatusCondition(conds, t) ==
  IF \E i \in 1..Len(conds) : conds[i].type = t
  THEN CHOOSE i \in 1..Len(conds) :
         /\ conds[i].type = t
         /\ \A j \in 1..(i - 1) : conds[j].type # t
  ELSE 0

\* meta.SetStatusCondition as called by setReadyStatus: the new list of
\* conditions and whether anything changed
SetStatusCondition(conds, new) ==
  LET i == FindStatusCondition(conds, new.type)
  IN IF i = 0
     THEN [conds |-> Append(conds, new), changed |-> TRUE]
     ELSE [conds |-> [conds EXCEPT ![i] = new],
           changed |-> \/ conds[i].status # new.status
                       \/ conds[i].reason # new.reason
                       \/ conds[i].message # new.message]

\* The Ready condition of an object as a one-element or empty sequence.
ReadyOf(obj) == SelectSeq(obj.conditions, LAMBDA c : c.type = conditionTypeReady)

\* ------------------------------------------------------------------- state
VARIABLES
  store,     \* the persisted object of the key (NoObject when there is none)
  stk,       \* the backend's stack of the key
  o,         \* Reconcile's in-memory object
  stale,     \* o's resourceVersion is older than the store's
  pc,        \* position of the pass in Reconcile
  result,    \* what Reconcile returned: [err, requeue]
  trace,     \* the store and backend calls of the current (or last) pass
  summary,   \* p.ChangeSummary of the pass's preview: the set of its keys
  sr,        \* the last call of setReadyStatus in the pass
  faults,    \* number of failed calls so far
  edited,    \* a user changed the object since the last pass ended
  base,      \* the object the previous pass left, when nobody changed it since
  fetched,   \* the object as r.Get of the pass read it
  ctx,       \* the context of the pass: cancelled, and after how many calls
  cancels,   \* number of cancellations so far
  resolved   \* the sessions stack.GetStack resolved, each with its key

vars == <<store, stk, o, stale, pc, result, trace, summary, sr, faults, edited, base,
          fetched, ctx, cancels, resolved>>

NoStack == [exists |-> FALSE, resources |-> FALSE, deployed |-> 0]
NoResult == [err |-> FALSE, requeue |-> FALSE]
NoCall == [n |-> 0, target |-> <<>>, before |-> <<>>, persisted |-> FALSE,
           err |-> FALSE, prevTarget |-> <<>>, prevPersisted |-> FALSE]
NoCancel == [cancelled |-> FALSE, after |-> 0]
NoBase == [exists |-> FALSE, deletionTimestamp |-> TRUE, finalizers |-> <<>>,
           generation |-> 0, conditions |-> <<>>, outputs |-> 0]

Init ==
  /\ store = NoObject
  /\ stk = NoStack
  /\ o = NoObject
  /\ stale = FALSE
  /\ pc = "idle"
  /\ result = NoResult
  /\ trace = <<>>
  /\ summary = {}
  /\ sr = NoCall
  /\ faults = 0
  /\ edited = FALSE
  /\ base = NoBase
  /\ fetched = NoObject
  /\ ctx = NoCancel
  /\ cancels = 0
  /\ resolved = {}

\* A call of the store or the backend: op, whether it succeeded, and what
\* it carried.
Event(op, ok, arg) == [op |-> op, ok |-> ok, arg |-> arg]

\* The outcomes a call can have: it fails when its context is cancelled,
\* and it may fail otherwise while faults remain.
Outcomes ==
  IF ctx.cancelled THEN {FALSE}
  ELSE IF faults < MaxFaults THEN {TRUE, FALSE} ELSE {TRUE}
Fault(ok) == IF ok \/ ctx.cancelled THEN faults ELSE faults + 1

\* -------------------------------------------------------------- the users
\* A user creates the object.
CreateObject ==
  /\ ~store.exists
  /\ \E fs \in {<<>>, <<ForeignFinalizer>>} : store' = [NewObject EXCEPT !.finalizers = fs]
  /\ stale' = TRUE
  /\ edited' = TRUE
  /\ base' = NoBase
  /\ UNCHANGED <<stk, o, pc, result, trace, summary, sr, faults, fetched, ctx, cancels, resolved>>

\* A user edits the spec of the object.
EditSpec ==
  /\ store.exists
  /\ ~store.deletionTimestamp
  /\ store.generation < MaxGen
  /\ store' = [store EXCEPT !.generation = @ + 1]
  /\ stale' = TRUE
  /\ edited' = TRUE
  /\ base' = NoBase
  /\ UNCHANGED <<stk, o, pc, result, trace, summary, sr, faults, fetched, ctx, cancels, resolved>>

\* A user deletes the object: the store marks it while finalizers block the
\* removal, and removes it otherwise.
DeleteObject ==
  /\ store.exists
  /\ ~store.deletionTimestamp
  /\ store' = IF Len(store.finalizers) = 0 THEN NoObject
              ELSE [store EXCEPT !.deletionTimestamp = TRUE]
  /\ stale' = TRUE
  /\ edited' = TRUE
  /\ base' = NoBase
  /\ UNCHANGED <<stk, o, pc, result, trace, summary, sr, faults, fetched, ctx, cancels, resolved>>

\* The other controller takes its finalizer off the object; the store
\* removes an object marked for deletion whose last finalizer goes.
RemoveForeignFinalizer ==
  /\ store.exists
  /\ ContainsFinalizer(store, ForeignFinalizer)
  /\ LET kept == SelectSeq(store.finalizers, LAMBDA x : x # ForeignFinalizer)
     IN store' = IF store.deletionTimestamp /\ Len(kept) = 0 THEN NoObject
                 ELSE [store EXCEPT !.finalizers = kept]
  /\ stale' = TRUE
  /\ edited' = TRUE
  /\ base' = NoBase
  /\ UNCHANGED <<stk, o, pc, result, trace, summary, sr, faults, fetched, ctx, cancels, resolved>>

\* The other controller writes its condition to the status of the object.
SetForeignCondition ==
  /\ store.exists
  /\ FindStatusCondition(store.conditions, ForeignCondition.type) = 0
  /\ store' = [store EXCEPT !.conditions = Append(@, ForeignCondition)]
  /\ stale' = TRUE
  /\ edited' = TRUE
  /\ base' = NoBase
  /\ UNCHANGED <<stk, o, pc, result, trace, summary, sr, faults, fetched, ctx, cancels, resolved>>

\* The context of the running pass is cancelled.
Cancel ==
  /\ pc \notin {"idle", "done"}
  /\ ~ctx.cancelled
  /\ cancels < MaxCancels
  /\ ctx' = [cancelled |-> TRUE, after |-> Len(trace)]
  /\ cancels' = cancels + 1
  /\ UNCHANGED <<store, stk, o, stale, pc, result, trace, summary, sr, faults, edited, base,
                 fetched, resolved>>

\* ---------------------------------------------------------- the store API
\* Update and Status().Update reject an object whose resourceVersion is
\* stale (or whose object is gone), and may fail for any other reason.
Written(ok) == ok /\ ~stale /\ store.exists

\* r.Status().Update: persists the status of obj only.
StatusUpdated(obj) ==
  [store EXCEPT !.conditions = obj.conditions, !.outputs = obj.outputs]

\* r.Update: persists metadata and spec of obj, never its status; an object
\* marked for deletion whose last finalizer goes is removed.
Updated(obj) ==
  LET new == [store EXCEPT !.finalizers = obj.finalizers]
  IN IF new.deletionTimestamp /\ Len(new.finalizers) = 0 THEN NoObject ELSE new

\* ------------------------------------------------------------ end of pass
\* return ctrl.Result{Requeue: requeue}, err
Return(err, requeue) ==
  /\ pc' = "done"
  /\ result' = [err |-> err, requeue |-> requeue]
  /\ edited' = FALSE

\* Reconcile goes on with the statement at next.
Goto(next) ==
  /\ pc' = next
  /\ UNCHANGED <<result, edited>>

\* --------------------------------------------------------- setReadyStatus
\* SkipPersist with the test of changed inverted away: nothing is persisted.
SkipPersistAlways(changed) == TRUE

\* SkipPersist without the test of changed: every call persists.
SkipPersistNever(changed) == FALSE

\* if changed := meta.SetStatusCondition(...); !changed { return nil }
SkipPersist(changed) == ~changed

\* setReadyStatus(ctx, status, o, r, reason, message), and what Reconcile
\* does with its result: on an error it returns the error, otherwise it
\* goes on at next (next = "done": it returns nil, the pass is over).
setReadyStatus(status, reason, message, next) ==
  LET new == Condition(status, reason, message)
      set == SetStatusCondition(o.conditions, new)
      obj == [o EXCEPT !.conditions = set.conds]
      called(persisted, err) ==
        [n |-> sr.n + 1, target |-> <<new>>, before |-> ReadyOf(o),
         persisted |-> persisted, err |-> err,
         prevTarget |-> sr.target, prevPersisted |-> sr.persisted]
      goOn == IF next = "done" THEN Return(FALSE, FALSE) ELSE Goto(next)
  IN IF SkipPersist(set.changed)
     THEN /\ o' = obj
          /\ sr' = called(FALSE, FALSE)
          /\ goOn
          /\ UNCHANGED <<store, stk, stale, trace, summary, faults, base, fetched, ctx, cancels, resolved>>
     ELSE \E ok \in Outcomes :
            /\ faults' = Fault(ok)
            /\ trace' = Append(trace, Event("StatusUpdate", Written(ok), message))
            /\ sr' = called(TRUE, ~Written(ok))
            /\ IF Written(ok)
               THEN /\ store' = StatusUpdated(obj)
                    /\ o' = StatusUpdated(obj)
                    /\ goOn
               ELSE /\ o' = obj
                    /\ Return(TRUE, FALSE)
                    /\ UNCHANGED store
            /\ UNCHANGED <<stk, stale, summary, base, fetched, ctx, cancels, resolved>>

\* -------------------------------------------------------------- Reconcile
\* GetFailure without the apierrors.IsNotFound case.
GetFailureAlwaysError(notFound) == [err |-> TRUE, requeue |-> FALSE]

\* What Reconcile returns when r.Get fails.
GetFailure(notFound) == IF notFound THEN NoResult ELSE [err |-> TRUE, requeue |-> FALSE]

\* r.Get(ctx, req.NamespacedName, o): the start of a pass.
Get ==
  /\ pc \in {"idle", "done"}
  /\ sr' = NoCall
  /\ summary' = {}
  /\ base' = IF pc = "done" /\ ~edited THEN store ELSE NoBase
  /\ ctx' = NoCancel
  /\ \E ok \in IF faults < MaxFaults THEN {TRUE, FALSE} ELSE {TRUE} :
       /\ faults' = IF ok THEN faults ELSE faults + 1
       /\ fetched' = IF ok THEN store ELSE NoObject
       /\ IF ok /\ store.exists
          THEN /\ o' = store
               /\ stale' = FALSE
               /\ trace' = <<Event("Get", TRUE, "found")>>
               /\ Goto("bootstrap")
          ELSE /\ o' = NoObject
               /\ stale' = TRUE
               /\ trace' = <<Event("Get", FALSE, IF ok THEN "notfound" ELSE "error")>>
               /\ LET res == GetFailure(ok) IN Return(res.err, res.requeue)
  /\ UNCHANGED <<store, stk, cancels, resolved>>

\* NoStatusAvailable without the test: the condition is reset in every pass.
StatusResetInEveryPass(conds) == TRUE

\* len(*o.GetStatusConditions()) == 0
NoStatusAvailable(conds) == Len(conds) = 0

\* if len(*o.GetStatusConditions()) == 0 { setReadyStatus(False, Reconciling) }
Bootstrap ==
  /\ pc = "bootstrap"
  /\ IF NoStatusAvailable(o.conditions)
     THEN setReadyStatus(ConditionFalse, "Reconciling", MsgStarting, "getstack")
     ELSE /\ Goto("getstack")
          /\ UNCHANGED <<store, stk, o, stale, trace, summary, sr, faults, base, fetched, ctx, cancels, resolved>>

\* What Reconcile returns when stack.GetStack fails.
GetStackFailure == [err |-> FALSE, requeue |-> FALSE]

\* stack.GetStack: auto.UpsertStackInlineSource, then s.SetConfig.  A call
\* that fails may have created the (empty) stack already.
GetStack ==
  /\ pc = "getstack"
  /\ \E ok \in Outcomes :
       /\ faults' = Fault(ok)
       /\ trace' = Append(trace, Event("GetStack", ok, ""))
       /\ IF ok
          THEN /\ stk' = [stk EXCEPT !.exists = TRUE]
               /\ Goto("branch")
          ELSE /\ \E made \in {stk.exists, TRUE} : stk' = [stk EXCEPT !.exists = made]
               /\ Return(GetStackFailure.err, GetStackFailure.requeue)
  /\ UNCHANGED <<store, o, stale, summary, sr, base, fetched, ctx, cancels, resolved>>

\* MarkedForDeletion without the test: every object is taken for active.
MarkedForDeletionNever(obj) == FALSE

\* MarkedForDeletion with the test inverted.
MarkedForDeletionInverted(obj) == ~obj.deletionTimestamp

\* o.GetDeletionTimestamp() != nil
MarkedForDeletion(obj) == obj.deletionTimestamp

\* AfterAddFinalizer with the error of r.Update ignored.
AfterAddFinalizerIgnoringError(updated) == "preview"

\* What Reconcile does after the r.Update that persists the finalizer: it
\* returns the error of a failed Update, and goes on to the preview otherwise.
AfterAddFinalizer(updated) == IF updated THEN "preview" ELSE "done"

\* Active object: if !ContainsFinalizer { AddFinalizer; r.Update }
EnsureFinalizer ==
  /\ pc = "branch"
  /\ ~MarkedForDeletion(o)
  /\ IF ContainsFinalizer(o, Finalizer)
     THEN /\ Goto("preview")
          /\ UNCHANGED <<store, o, trace, faults>>
     ELSE LET obj == AddFinalizer(o, Finalizer)
          IN \E ok \in Outcomes :
               /\ faults' = Fault(ok)
               /\ trace' = Append(trace, Event("Update", Written(ok), "addFinalizer"))
               /\ store' = IF Written(ok) THEN Updated(obj) ELSE store
               /\ o' = IF Written(ok) THEN Updated(obj) ELSE obj
               /\ IF AfterAddFinalizer(Written(ok)) = "done"
                  THEN Return(TRUE, FALSE)
                  ELSE Goto(AfterAddFinalizer(Written(ok)))
  /\ UNCHANGED <<stk, stale, summary, sr, base, fetched, ctx, cancels, resolved>>

\* Object marked for deletion: with the finalizer, the teardown begins with
\* setReadyStatus(False, Finalizing); without it Reconcile returns nil.
BeginFinalize ==
  /\ pc = "branch"
  /\ MarkedForDeletion(o)
  /\ IF ContainsFinalizer(o, Finalizer)
     THEN setReadyStatus(ConditionFalse, "Finalizing", MsgFinalizeBegin, "destroy")
     ELSE /\ Return(FALSE, FALSE)
          /\ UNCHANGED <<store, stk, o, stale, trace, summary, sr, faults, base, fetched, ctx, cancels, resolved>>

\* AfterDestroy with the error of s.Destroy ignored.
AfterDestroyIgnoringError(ok) == "finalized"

\* AfterDestroy returning whatever s.Destroy returned.
AfterDestroyAlwaysReturns(ok) == "done"

\* What Reconcile does after s.Destroy: the statement it goes on with.
AfterDestroy(ok) == IF ok THEN "finalized" ELSE "done"

\* What Reconcile returns when s.Destroy fails.
DestroyFailure == [err |-> FALSE, requeue |-> FALSE]

\* s.Destroy(ctx, ...): a teardown that succeeds leaves no resource.
Destroy ==
  /\ pc = "destroy"
  /\ \E ok \in Outcomes :
       /\ faults' = Fault(ok)
       /\ trace' = Append(trace, Event("Destroy", ok, ""))
       /\ stk' = IF ok THEN [stk EXCEPT !.resources = FALSE, !.deployed = 0] ELSE stk
       /\ IF AfterDestroy(ok) = "done"
          THEN Return(DestroyFailure.err, DestroyFailure.requeue)
          ELSE Goto(AfterDestroy(ok))
  /\ UNCHANGED <<store, o, stale, summary, sr, base, fetched, ctx, cancels, resolved>>

\* setReadyStatus(False, Finalizing, "... successfully accomplished")
FinalizeDone ==
  /\ pc = "finalized"
  /\ setReadyStatus(ConditionFalse, "Finalizing", MsgFinalizeDone, "remove")

\* What Reconcile returns when controllerutil.RemoveFinalizer removed nothing.
NotRemoved == [err |-> FALSE, requeue |-> TRUE]

\* UpdateFailure turned into a re-queue request without an error.
UpdateFailureRequeued == [err |-> FALSE, requeue |-> TRUE]

\* What Reconcile returns when the r.Update that removes the finalizer fails.
UpdateFailure == [err |-> TRUE, requeue |-> FALSE]

\* controllerutil.RemoveFinalizer, then r.Update; return nil
RemoveFinalizerAndUpdate ==
  /\ pc = "remove"
  /\ LET rm == RemoveFinalizer(o, Finalizer)
     IN IF ~rm.ok
        THEN /\ Return(NotRemoved.err, NotRemoved.requeue)
             /\ UNCHANGED <<store, o, trace, faults>>
        ELSE \E ok \in Outcomes :
               /\ faults' = Fault(ok)
               /\ trace' = Append(trace, Event("Update", Written(ok), "removeFinalizer"))
               /\ o' = rm.obj
               /\ store' = IF Written(ok) THEN Updated(rm.obj) ELSE store
               /\ IF Written(ok)
                  THEN Return(FALSE, FALSE)
                  ELSE Return(UpdateFailure.err, UpdateFailure.requeue)
  /\ UNCHANGED <<stk, stale, summary, sr, base, fetched, ctx, cancels, resolved>>

\* apitype.OpSame
OpSame == "same"

\* The change summaries a preview of generation gen can report: creations
\* for a stack without a deployment, no-ops only when gen is deployed, and
\* changes otherwise.
Summaries(gen) ==
  IF stk.deployed = 0
  THEN IF stk.resources THEN {{"create"}, {OpSame, "create"}} ELSE {{"create"}}
  ELSE IF stk.deployed = gen
       THEN {{}, {OpSame}}
       ELSE {{"update"}, {OpSame, "update"}, {OpSame, "replace"}}

\* isChanged counting the entries instead of comparing them with OpSame.
isChangedOnAnyEntry(p) == p # {}

\* isChanged: for op := range p.ChangeSummary { if op != OpSame { true } }
isChanged(p) == \E op \in p : op # OpSame

\* s.Preview(ctx) and the decision on its change summary.
Preview ==
  /\ pc = "preview"
  /\ \E ok \in Outcomes :
       /\ faults' = Fault(ok)
       /\ IF ok
          THEN \E p \in Summaries(o.generation) :
                 /\ summary' = p
                 /\ trace' = Append(trace, Event("Preview", TRUE, ""))
                 /\ IF isChanged(p) THEN Goto("reconciling") ELSE Return(FALSE, FALSE)
          ELSE /\ summary' = {}
               /\ trace' = Append(trace, Event("Preview", FALSE, ""))
               /\ Return(TRUE, FALSE)
  /\ UNCHANGED <<store, stk, o, stale, sr, base, fetched, ctx, cancels, resolved>>

\* setReadyStatus(False, Reconciling, "Starting reconciliation")
MarkReconciling ==
  /\ pc = "reconciling"
  /\ setReadyStatus(ConditionFalse, "Reconciling", MsgStarting, "up")

\* SetStatus left out: the outputs of s.Up never reach the object.
SetStatusForgotten(obj, outputs) == obj

\* o.SetStatus(upRes.Outputs): the outputs of the generation applied
SetStatus(obj, outputs) == [obj EXCEPT !.outputs = outputs]

\* s.Up(ctx, ...), then o.SetStatus(upRes.Outputs).  An apply that fails
\* may have created resources.
Up ==
  /\ pc = "up"
  /\ \E ok \in Outcomes :
       /\ faults' = Fault(ok)
       /\ trace' = Append(trace, Event("Up", ok, ""))
       /\ IF ok
          THEN /\ stk' = [stk EXCEPT !.resources = TRUE, !.deployed = o.generation]
               /\ o' = SetStatus(o, o.generation)
               /\ Goto("publish")
          ELSE /\ stk' = [stk EXCEPT !.resources = TRUE]
               /\ o' = o
               /\ Return(TRUE, FALSE)
  /\ UNCHANGED <<store, stale, summary, sr, base, fetched, ctx, cancels, resolved>>

\* r.Status().Update(ctx, o) with the outputs
PublishOutputs ==
  /\ pc = "publish"
  /\ \E ok \in Outcomes :
       /\ faults' = Fault(ok)
       /\ trace' = Append(trace, Event("StatusUpdate", Written(ok), "outputs"))
       /\ IF Written(ok)
          THEN /\ store' = StatusUpdated(o)
               /\ o' = StatusUpdated(o)
               /\ Goto("ready")
          ELSE /\ Return(TRUE, FALSE)
               /\ UNCHANGED <<store, o>>
  /\ UNCHANGED <<stk, stale, summary, sr, base, fetched, ctx, cancels, resolved>>

\* setReadyStatus(True, Created), return nil
MarkReady ==
  /\ pc = "ready"
  /\ setReadyStatus(ConditionTrue, "Created", MsgCreated, "done")

Engine ==
  \/ Get
  \/ Bootstrap
  \/ GetStack
  \/ EnsureFinalizer
  \/ BeginFinalize
  \/ Destroy
  \/ FinalizeDone
  \/ RemoveFinalizerAndUpdate
  \/ Preview
  \/ MarkReconciling
  \/ Up
  \/ PublishOutputs
  \/ MarkReady

Next ==
  \/ CreateObject
  \/ EditSpec
  \/ DeleteObject
  \/ RemoveForeignFinalizer
  \/ SetForeignCondition
  \/ Cancel
  \/ Engine

Spec == Init /\ [][Next]_vars

\* Passes keep being run: every pass that began runs to its end, and the
\* key is reconciled again (re-queue, notification or re-sync).
FairSpec == Spec /\ WF_vars(Engine)

\* ------------------------------------------------------------ the claims
\* The calls of the pass, read from its trace.
Called(op) == \E i \in 1..Len(trace) : trace[i].op = op
Succeeded(op) == \E i \in 1..Len(trace) : trace[i].op = op /\ trace[i].ok
LastCall == trace[Len(trace)]
EndedByFailed(op) ==
  /\ pc = "done"
  /\ Len(trace) > 0
  /\ LastCall.op = op
  /\ ~LastCall.ok

Persisted(f) == store.exists /\ ContainsFinalizer(store, f)

\* C1 - Teardown before finalizer removal: a step takes the finalizer off
\* the persisted object only in a pass whose s.Destroy returned success
\* before that step, and when a pass ends because s.Destroy failed the
\* persisted object still carries the finalizer.
TeardownBeforeFinalizerRemoval ==
  /\ [][(Persisted(Finalizer) /\ ~Persisted(Finalizer)')
          => (Succeeded("Destroy") /\ pc = "remove")]_vars
  /\ [](EndedByFailed("Destroy") => Persisted(Finalizer))

\* A pass tore the stack down and then removed the finalizer: the object is gone.
FinalizerRemovedAfterTeardown ==
  /\ pc = "done"
  /\ Succeeded("Destroy")
  /\ LastCall = Event("Update", TRUE, "removeFinalizer")
  /\ ~store.exists

\* C2 - Finalizer before create: whenever s.Up has been called in a pass,
\* the persisted object carries the finalizer (it was persisted before the
\* call), and a pass whose r.Update of the finalizer failed has ended with
\* that error and without a call of s.Up.
FinalizerBeforeCreate ==
  /\ Called("Up") => Persisted(Finalizer)
  /\ (\E i \in 1..Len(trace) : trace[i] = Event("Update", FALSE, "addFinalizer"))
       => (pc = "done" /\ result.err /\ ~Called("Up") /\ ~stk.resources)

\* A pass persisted the finalizer of a fresh object and then called s.Up.
FinalizerPersistedThenUp ==
  \E i, j \in 1..Len(trace) :
    /\ i < j
    /\ trace[i] = Event("Update", TRUE, "addFinalizer")
    /\ trace[j].op = "Up"

\* C3 - Crash safety: in every state, between any two calls of any pass, a
\* stack that holds resources (an apply was started and no teardown has
\* succeeded since) belongs to a persisted object that carries the finalizer.
CrashSafety == stk.resources => Persisted(Finalizer)

\* An apply failed half-way and the pass ended: resources and the finalizer.
ResourcesLeftWithFinalizer ==
  /\ EndedByFailed("Up")
  /\ stk.resources
  /\ Persisted(Finalizer)

\* The persisted Ready condition.
Ready(status, reason, message) == ReadyOf(store) = <<Condition(status, reason, message)>>

\* C4 - Every pass in which a store call (a Get other than NotFound, an
\* Update, a status Update) or a backend call (GetStack, Preview, Up,
\* Destroy) failed has returned a non-nil error.
FailedCallEndsInError ==
  (/\ pc = "done"
   /\ \E i \in 1..Len(trace) : ~trace[i].ok /\ trace[i].arg # "notfound")
    => result.err

\* C5 as stated - after a pass that ended on a failed Preview, Up or
\* Destroy the persisted Ready condition is False with reason Reconciling
\* or Finalizing.
BackendFailureLeavesNotReady ==
  (EndedByFailed("Preview") \/ EndedByFailed("Up") \/ EndedByFailed("Destroy"))
    => /\ Len(ReadyOf(store)) = 1
       /\ ReadyOf(store)[1].status = ConditionFalse
       /\ ReadyOf(store)[1].reason \in {"Reconciling", "Finalizing"}

\* C5 as amended - after a pass that ended on a failed Up the persisted
\* Ready condition is False/Reconciling, after one that ended on a failed
\* Destroy it is False/Finalizing, and after one that ended on a failed
\* Preview it is what it was before the preview: False/Reconciling,
\* True/Created, or none for an object whose list of conditions holds
\* another condition only.
ApplyOrTeardownFailureLeavesNotReady ==
  /\ EndedByFailed("Up") => Ready(ConditionFalse, "Reconciling", MsgStarting)
  /\ EndedByFailed("Destroy") => Ready(ConditionFalse, "Finalizing", MsgFinalizeBegin)
  /\ EndedByFailed("Preview") =>
       /\ ReadyOf(store) = ReadyOf(o)
       /\ \/ Ready(ConditionFalse, "Reconciling", MsgStarting)
          \/ Ready(ConditionTrue, "Created", MsgCreated)
          \/ Len(ReadyOf(store)) = 0 /\ Len(store.conditions) > 0

\* An object that was Ready with published outputs, and whose apply of an
\* edit failed.
ApplyFailedOnReadyObject ==
  /\ EndedByFailed("Up")
  /\ store.outputs # 0
  /\ o.generation # store.outputs

\* C6 - Once a pass has ended in an error because a status write after a
\* successful apply failed, the object (unless a user deletes it) eventually
\* has the outputs of the deployed generation published and Ready = True/Created.
LostStatusWrite ==
  /\ EndedByFailed("StatusUpdate")
  /\ result.err
  /\ Succeeded("Up")

StatusRecovered ==
  /\ Ready(ConditionTrue, "Created", MsgCreated)
  /\ store.outputs # 0
  /\ store.outputs = stk.deployed

RecoveryAfterLostStatusWrite ==
  [](LostStatusWrite => <>(StatusRecovered \/ ~store.exists \/ store.deletionTimestamp))

\* The preview of the pass reported no-op entries only (or none).
NoDriftObserved == Succeeded("Preview") /\ summary \subseteq {OpSame}

\* C7 - No-op short-circuit: after a preview whose change summary holds
\* only OpSame entries (or none), the pass has ended without error and
\* without re-queue, the preview is its last call (no Up, no Destroy, no
\* store write after it), and the Ready condition is the one the object
\* had before the preview.
NoOpShortCircuit ==
  NoDriftObserved =>
    /\ pc = "done"
    /\ result = NoResult
    /\ LastCall.op = "Preview"
    /\ ~Called("Up") /\ ~Called("Destroy")
    /\ ReadyOf(store) = ReadyOf(o)
    /\ ~o.deletionTimestamp

\* A Ready object whose preview reported only OpSame entries.
NoOpPassOnReadyObject ==
  /\ pc = "done"
  /\ Succeeded("Preview")
  /\ summary = {OpSame}
  /\ Ready(ConditionTrue, "Created", MsgCreated)

\* A write of the store among the calls of the pass.
Wrote == Called("Update") \/ Called("StatusUpdate")

\* C8 - Pass idempotence: a pass that follows an ended pass with no user
\* edit in between, and whose preview observes no drift, issues neither an
\* Update nor a status Update, and leaves the persisted object as the
\* first pass left it.
PassIdempotence ==
  (pc = "done" /\ base # NoBase /\ NoDriftObserved) => (~Wrote /\ store = base)

\* A second pass without drift on the object a first pass left.
SecondPassWithoutDrift ==
  /\ pc = "done"
  /\ base # NoBase
  /\ base.exists
  /\ NoDriftObserved

\* C9 - A Get that returns NotFound ends the pass with a nil error and no
\* re-queue, and it is the only call of the pass: no store write, no
\* GetStack, no Preview, Up or Destroy.
MissingObjectIsNotAnError ==
  (Len(trace) > 0 /\ trace[1] = Event("Get", FALSE, "notfound"))
    => /\ pc = "done"
       /\ result = NoResult
       /\ Len(trace) = 1
       /\ sr.n = 0

\* A pass for a key whose object is gone while its (torn down) stack exists.
PassOnMissingObject ==
  /\ pc = "done"
  /\ Len(trace) > 0
  /\ trace[1] = Event("Get", FALSE, "notfound")
  /\ stk.exists

\* C10 - Condition idempotence: a call of setReadyStatus whose target is
\* the object's Ready condition makes no persistence call and returns nil;
\* of two successive calls with the same (status, reason, message) the
\* first makes the one persistence call and the second makes none.
ConditionIdempotence ==
  /\ (sr.n > 0 /\ sr.before = sr.target) => (~sr.persisted /\ ~sr.err)
  /\ (sr.n > 0 /\ sr.before # sr.target) => sr.persisted
  /\ (sr.n > 1 /\ sr.prevTarget = sr.target) => (sr.prevPersisted /\ ~sr.persisted /\ ~sr.err)

\* The second of two calls with the same target in one pass.
SameConditionSetTwice ==
  /\ sr.n > 1
  /\ sr.prevTarget = sr.target
  /\ sr.before = sr.target

\* An object fetched with a deletion marker, a Ready condition and without
\* the finalizer of its kind.
FetchedDeletedWithoutFinalizer ==
  /\ fetched.exists
  /\ fetched.deletionTimestamp
  /\ ~(\E i \in 1..Len(fetched.finalizers) : fetched.finalizers[i] = Finalizer)
  /\ Len(ReadyOf(fetched)) = 1

\* C12 as stated - the pass for an object with a Ready condition, a
\* deletion marker and no finalizer writes nothing to the store, calls no
\* operation of the provisioning backend, and ends without error and
\* without a re-queue request.
DeletionWithoutFinalizerCallsNothing ==
  FetchedDeletedWithoutFinalizer =>
    /\ ~Wrote
    /\ ~Called("GetStack") /\ ~Called("Preview") /\ ~Called("Up") /\ ~Called("Destroy")
    /\ pc = "done" => result = NoResult

\* C12 as amended - that pass writes nothing to the store and calls
\* neither Preview nor Up nor Destroy; it does resolve the session with
\* stack.GetStack, after which it ends without error and without a
\* re-queue request, whether GetStack failed or not.
DeletionWithoutFinalizerResolvesOnly ==
  FetchedDeletedWithoutFinalizer =>
    /\ ~Wrote
    /\ ~Called("Preview") /\ ~Called("Up") /\ ~Called("Destroy")
    /\ pc \in {"bootstrap", "getstack", "branch", "done"}
    /\ pc \in {"branch", "done"} <=> Called("GetStack")
    /\ pc = "done" => (result = NoResult /\ Len(trace) = 2 /\ sr.n = 0)

\* The pass for an object that only another controller's finalizer keeps
\* has ended after resolving the session.
TerminalPassOnDeletedObject ==
  /\ FetchedDeletedWithoutFinalizer
  /\ pc = "done"
  /\ LastCall = Event("GetStack", TRUE, "")

\* A pass whose teardown succeeded and which came to the removal of the
\* finalizer (setReadyStatus of "cleanup complete" returned nil), and did
\* not take the finalizer off the persisted object.
FinalizerRemovalFailed ==
  /\ pc = "done"
  /\ Succeeded("Destroy")
  /\ sr.target = <<Condition(ConditionFalse, "Finalizing", MsgFinalizeDone)>>
  /\ ~sr.err
  /\ LastCall # Event("Update", TRUE, "removeFinalizer")

\* C13 as stated - when teardown succeeded and the removal of the finalizer
\* then fails, the pass ends with a re-queue request and no error, and the
\* persisted object still carries the finalizer.
FinalizerRemovalFailureRequeues ==
  FinalizerRemovalFailed =>
    /\ result = [err |-> FALSE, requeue |-> TRUE]
    /\ Persisted(Finalizer)

\* C13 as amended - the removal fails only by the r.Update that persists
\* it failing; the pass then ends with that error and without a re-queue
\* request, and the persisted object still carries the finalizer.
FinalizerRemovalFailureIsAnError ==
  FinalizerRemovalFailed =>
    /\ LastCall = Event("Update", FALSE, "removeFinalizer")
    /\ result = [err |-> TRUE, requeue |-> FALSE]
    /\ Persisted(Finalizer)

\* The r.Update that removes the finalizer failed after a teardown.
FinalizerRemovalUpdateFailed ==
  /\ FinalizerRemovalFailed
  /\ LastCall = Event("Update", FALSE, "removeFinalizer")
  /\ ~stk.resources

\* No call of the pass failed.
NoFailingCall == \A i \in 1..Len(trace) : trace[i].ok

\* A pass without a failing call has ended for a freshly created active
\* object (no condition, no finalizer) whose preview reported drift.
FreshObjectPassEnded ==
  /\ pc = "done"
  /\ NoFailingCall
  /\ fetched.exists
  /\ ~fetched.deletionTimestamp
  /\ Len(fetched.conditions) = 0
  /\ \A i \in 1..Len(fetched.finalizers) : fetched.finalizers[i] # "bucket.cloud.acme.local/finalizer"
  /\ Succeeded("Preview")
  /\ ~(summary \subseteq {OpSame})

\* A pass without a failing call has ended for a ready object with the
\* finalizer whose deletion marker is set.
DeletedObjectPassEnded ==
  /\ pc = "done"
  /\ NoFailingCall
  /\ fetched.exists
  /\ fetched.deletionTimestamp
  /\ \E i \in 1..Len(fetched.finalizers) : fetched.finalizers[i] = "bucket.cloud.acme.local/finalizer"
  /\ ReadyOf(fetched) = <<Condition(ConditionTrue, "Created", MsgCreated)>>

\* C14 - End-to-end ordering: the calls of the pass for a fresh object
\* are, in this order, the persist of Ready=False/Reconciling, the persist of
\* the finalizer "bucket.cloud.acme.local/finalizer", the preview, the
\* apply, the persist of the outputs and the persist of Ready=True/Created
\* (after the Get, and with GetStack before the finalizer); those of the
\* pass for the object once marked for deletion are the persist of
\* Ready=False/Finalizing (cleanup starting), the teardown, the persist of
\* Ready=False/Finalizing (cleanup complete) and the persist of the
\* removal of the finalizer.
EndToEndOrdering ==
  /\ FreshObjectPassEnded =>
       /\ trace = << Event("Get", TRUE, "found"),
                     Event("StatusUpdate", TRUE, MsgStarting),
                     Event("GetStack", TRUE, ""),
                     Event("Update", TRUE, "addFinalizer"),
                     Event("Preview", TRUE, ""),
                     Event("Up", TRUE, ""),
                     Event("StatusUpdate", TRUE, "outputs"),
                     Event("StatusUpdate", TRUE, MsgCreated) >>
       /\ Persisted("bucket.cloud.acme.local/finalizer")
       /\ Ready(ConditionTrue, "Created", MsgCreated)
       /\ store.outputs = fetched.generation
  /\ DeletedObjectPassEnded =>
       /\ trace = << Event("Get", TRUE, "found"),
                     Event("GetStack", TRUE, ""),
                     Event("StatusUpdate", TRUE, MsgFinalizeBegin),
                     Event("Destroy", TRUE, ""),
                     Event("StatusUpdate", TRUE, MsgFinalizeDone),
                     Event("Update", TRUE, "removeFinalizer") >>
       /\ ~Persisted("bucket.cloud.acme.local/finalizer")
       /\ ~stk.resources

\* The object was created and made ready, then deleted and finalized.
CreatedThenFinalized ==
  /\ DeletedObjectPassEnded
  /\ fetched.outputs # 0
  /\ ~store.exists

\* C15 - Re-fetch discipline: between a write of the pass to the store (an
\* Update or a status Update that succeeded) and its next status Update
\* the pass reads the object again with Get.
RefetchBeforeStatusWrite ==
  \A i, j \in 1..Len(trace) :
    (/\ i < j
     /\ trace[i].op \in {"Update", "StatusUpdate"}
     /\ trace[i].ok
     /\ trace[j].op = "StatusUpdate")
      => \E k \in (i + 1)..(j - 1) : trace[k].op = "Get"

\* C16 - Cancellation: once the context of the pass is cancelled, the pass
\* makes no call beyond the one the cancellation interrupts, and it ends
\* with an error returned to the caller.
CancelledPassEndsInError ==
  ctx.cancelled =>
    /\ Len(trace) <= ctx.after + 1
    /\ pc = "done" => result.err

\* C17 - Bootstrap status: in a pass that fetched an object without a Ready
\* condition, the call after the Get is the status Update of
\* Ready=False/Reconciling, ahead of GetStack, the finalizer Update,
\* Preview, Up and Destroy; when that Update fails it is the last call of
\* the pass, and the pass ends in an error.
BootstrapStatus ==
  (/\ fetched.exists
   /\ Len(ReadyOf(fetched)) = 0
   /\ pc \notin {"idle", "bootstrap"})
    => /\ Len(trace) >= 2
       /\ trace[2].op = "StatusUpdate"
       /\ trace[2].arg = MsgStarting
       /\ ~trace[2].ok => (pc = "done" /\ result.err /\ Len(trace) = 2)

\* C18 - Deletion eventually completes: after a pass on an object marked
\* for deletion ended because s.Destroy failed, with further passes taking
\* place and the calls failing finitely often, the finalizer is eventually
\* off the persisted object; and a step takes the finalizer off only in a
\* pass whose s.Destroy has succeeded.
DeletionEventuallyCompletes ==
  /\ (EndedByFailed("Destroy") /\ store.deletionTimestamp /\ Persisted(Finalizer))
       ~> ~Persisted(Finalizer)
  /\ [][(Persisted(Finalizer) /\ ~Persisted(Finalizer)') => Succeeded("Destroy")']_vars

\* A teardown failed and the pass ended: the object marked for deletion
\* keeps the finalizer and waits for the next pass.
TeardownFailedFinalizerKept ==
  /\ EndedByFailed("Destroy")
  /\ store.deletionTimestamp
  /\ Persisted(Finalizer)
  /\ stk.resources

\* C19 - Ready=True implies published outputs: the persisted Ready condition
\* becomes True/Created only by the last call of a pass, a status Update
\* that follows a successful s.Up and the successful status Update with the
\* outputs of that s.Up; so a persisted Ready=True/Created comes with the
\* persisted outputs of the last successful s.Up, and s.Up is called only
\* while the persisted Ready condition is False/Reconciling.
ReadyTrueImpliesPublishedOutputs ==
  /\ [][(/\ ReadyOf(store)' # ReadyOf(store)
         /\ Len(ReadyOf(store)') = 1
         /\ ReadyOf(store)'[1].status = ConditionTrue)
          => /\ pc = "ready" /\ pc' = "done"
             /\ Ready(ConditionTrue, "Created", MsgCreated)'
             /\ Len(trace') >= 3
             /\ trace'[Len(trace')] = Event("StatusUpdate", TRUE, MsgCreated)
             /\ trace'[Len(trace') - 1] = Event("StatusUpdate", TRUE, "outputs")
             /\ trace'[Len(trace') - 2] = Event("Up", TRUE, "")
             /\ store'.outputs = stk.deployed]_vars
  /\ [](\A i \in 1..Len(trace) :
          trace[i] = Event("StatusUpdate", TRUE, MsgCreated) => i = Len(trace) /\ pc = "done")
  /\ [](Ready(ConditionTrue, "Created", MsgCreated)
          => store.outputs # 0 /\ store.outputs = stk.deployed)
  /\ [](pc = "up" => Ready(ConditionFalse, "Reconciling", MsgStarting))

\* A pass applied the second generation of an object, published its outputs
\* and ended with Ready=True/Created persisted.
ReadyAfterPublishedOutputs ==
  /\ pc = "done"
  /\ Len(trace) >= 3
  /\ LastCall = Event("StatusUpdate", TRUE, MsgCreated)
  /\ Ready(ConditionTrue, "Created", MsgCreated)
  /\ store.outputs = 2
  /\ stk.deployed = 2

\* The number of calls of op in the pass.
Calls(op) == Cardinality({i \in 1..Len(trace) : trace[i].op = op})

\* C20 - Branch exclusivity: a pass calls Preview and Up only for an object
\* fetched without a deletion marker, and Destroy only for an object
\* fetched with a deletion marker and the finalizer; no pass calls both Up
\* and Destroy, none calls Preview, Up or Destroy twice, and a pass for an
\* object fetched with a deletion marker never sends the Update that adds
\* the finalizer.
BranchExclusivity ==
  /\ (Called("Preview") \/ Called("Up"))
       => fetched.exists /\ ~fetched.deletionTimestamp
  /\ Called("Destroy")
       => /\ fetched.exists /\ fetched.deletionTimestamp
          /\ \E i \in 1..Len(fetched.finalizers) : fetched.finalizers[i] = Finalizer
  /\ ~(Called("Up") /\ Called("Destroy"))
  /\ Calls("Preview") <= 1 /\ Calls("Up") <= 1 /\ Calls("Destroy") <= 1
  /\ fetched.deletionTimestamp
       => /\ \A i \in 1..Len(trace) : trace[i].arg # "addFinalizer"
          /\ Len(o.finalizers) <= Len(fetched.finalizers)

\* A pass tore down the stack of an object that an earlier pass had
\* applied: both branches were taken for the same object, in two passes.
TeardownOfAppliedObject ==
  /\ pc = "done"
  /\ Succeeded("Destroy")
  /\ fetched.deletionTimestamp
  /\ fetched.outputs # 0
  /\ ~Called("Preview")

\* ------------------------------------------------------ stack.GetStack
\* The keys of managed objects the sessions are resolved for.
Kinds == {"Bucket", "Queue"}
Namespaces == {"team", "team-a"}
Names == {"db", "a-db"}

\* stackName := namespace + "-" + name
StackName(name, namespace) == namespace \o "-" \o name

\* stack.GetStack(ctx, program, kind, name, namespace): the session it
\* resolves is the stack stackName of the project kind.
StackOf(kind, name, namespace) ==
  [project |-> kind, stackName |-> StackName(name, namespace)]

\* Reconcile resolves the session of an object: kind lower-cased, then
\* stack.GetStack(ctx, program, kind, o.GetName(), o.GetNamespace()).
ResolveStack ==
  /\ \E k \in Kinds, ns \in Namespaces, n \in Names :
       resolved' = resolved \cup
         {[kind |-> k, namespace |-> ns, name |-> n,
           session |-> StackOf(ToLower(k), n, ns)]}
  /\ UNCHANGED <<store, stk, o, stale, pc, result, trace, summary, sr, faults, edited, base,
                 fetched, ctx, cancels>>

\* Sessions are resolved for any keys, in any order.
StackSpec == Init /\ [][ResolveStack]_vars

\* The key of a resolved session.
KeyOf(r) == <<r.namespace, r.name, r.kind>>

\* C11 - Session uniqueness: the sessions resolved for two objects with
\* different (namespace, name, kind) keys are different stacks (a different
\* stack name, or a different project).
SessionUniqueness ==
  \A r1, r2 \in resolved : KeyOf(r1) # KeyOf(r2) => r1.session # r2.session

====
